---- MODULE Spec2Model ----
(***************************************************************************)
(* Model of the user/authentication REST API: the Express route chains     *)
(* (security middleware, authenticate, controllers), the auth and users    *)
(* services, the JWT and cookie utilities and the users table.             *)
(*                                                                         *)
(* Strings that the code transforms (names, emails, passwords, id path     *)
(* parameters) are tuples of one-character strings, so that trim,          *)
(* toLowerCase, length checks and parseInt are computed, not assumed.      *)
(* An optional value is the empty tuple (absent) or a one-element tuple.   *)
(* Time is counted in days.                                                *)
(***************************************************************************)
EXTENDS Integers, Sequences, FiniteSets, TLC

VARIABLES
    users,      \* the users table: id -> row
    nextId,     \* the serial sequence behind users.id
    now,        \* the clock (new Date(), Date.now())
    jar,        \* the client's cookie jar: the token cookie it holds, if any
    req,        \* the last request received
    res,        \* the response to it, with the trace of what ran
    env,        \* process.env as read at start-up
    az,         \* one application of the authorize(...roles) middleware
    call,       \* one use of a utility on its own: its arguments and result
    flights     \* requests served at the same time, each with its position

vars == <<users, nextId, now, jar, req, res, env, az, call, flights>>

----------------------------------------------------------------------------
(* Bounds *)

MaxUsers == 2
MaxTime == 1
MaxAllowedRoles == 2

----------------------------------------------------------------------------
(* Optional values *)

None == <<>>
Some(x) == <<x>>
IsSome(o) == Len(o) = 1
Get(o) == o[1]

----------------------------------------------------------------------------
(* Strings *)

UpperChars == <<"A", "B", "C", "D", "J", "O">>
LowerChars == <<"a", "b", "c", "d", "j", "o">>
DigitChars == <<"0", "1", "2", "3", "4", "5", "6", "7", "8", "9">>

Range(s) == {s[i] : i \in 1..Len(s)}

IndexOf(c, s) == IF \E i \in 1..Len(s) : s[i] = c
                 THEN CHOOSE i \in 1..Len(s) : s[i] = c
                 ELSE 0

UpperSet == Range(UpperChars)
LowerSet == Range(LowerChars)
DigitSet == Range(DigitChars)

\* String.prototype.toLowerCase
ToLowerCase(s) == [i \in 1..Len(s) |->
                     IF s[i] \in UpperSet
                     THEN LowerChars[IndexOf(s[i], UpperChars)]
                     ELSE s[i]]

RECURSIVE TrimStart(_)
TrimStart(s) == IF Len(s) > 0 /\ s[1] = " " THEN TrimStart(Tail(s)) ELSE s

RECURSIVE TrimEnd(_)
TrimEnd(s) == IF Len(s) > 0 /\ s[Len(s)] = " "
              THEN TrimEnd(SubSeq(s, 1, Len(s) - 1))
              ELSE s

\* String.prototype.trim
Trim(s) == TrimEnd(TrimStart(s))

IsDigits(s) == Len(s) > 0 /\ \A i \in 1..Len(s) : s[i] \in DigitSet

\* parseInt(val, 10) on a string of digits
RECURSIVE ParseInt(_)
ParseInt(s) == IF Len(s) = 0 THEN 0
               ELSE 10 * ParseInt(SubSeq(s, 1, Len(s) - 1))
                    + (IndexOf(s[Len(s)], DigitChars) - 1)

IsLetter(c) == c \in UpperSet \/ c \in LowerSet
IsAlnum(c) == IsLetter(c) \/ c \in DigitSet

\* zod's email format: local@label(.label)*.tld, tld of two letters or more
IsEmail(s) ==
    /\ \E i \in 1..Len(s) : s[i] = "@"
    /\ LET at == IndexOf("@", s)
           dots == {i \in (at + 1)..Len(s) : s[i] = "."}
       IN /\ at > 1
          /\ \A i \in 1..(at - 1) : IsAlnum(s[i]) \/ s[i] \in {".", "_", "+", "-"}
          /\ s[1] # "." /\ s[at - 1] # "."
          /\ \A i \in (at + 1)..Len(s) : IsAlnum(s[i]) \/ s[i] \in {".", "-"}
          /\ dots # {}
          /\ \A d \in dots : d - 1 > at /\ s[d - 1] # "."
          /\ LET last == CHOOSE d \in dots : \A e \in dots : e <= d
             IN /\ Len(s) - last >= 2
                /\ \A i \in (last + 1)..Len(s) : IsLetter(s[i])

----------------------------------------------------------------------------
(* Inputs *)

Str_Jo == <<"J", "o">>
Str_J == <<"J">>
Str_Blank2 == <<" ", " ">>
Str_AB == <<"A", "@", "b", ".", "c", "o">>
Str_ab == <<"a", "@", "b", ".", "c", "o">>
Str_cd == <<"c", "@", "d", ".", "c", "o">>
Str_noAt == <<"a", "b">>
Str_pw == <<"p", "a", "s", "s", "w", "o", "r", "d">>
Str_x == <<"x">>

EmailInputs == {Str_AB, Str_ab, Str_cd, Str_noAt}
IdInputs == {<<"1">>, <<"2">>, <<"0">>, <<"a">>}
\* the path parameter that names user i
IdParam(i) == <<CHOOSE c \in {"1", "2", "3", "4", "5", "6", "7", "8", "9"} :
                    ParseInt(<<c>>) = i>>

\* digits only, positive, and beyond the id column's range
Str_99 == <<"9", "9">>
Salts == {"salt"}

----------------------------------------------------------------------------
(* Validation schemas (zod): checks run in the order written, each on the   *)
(* value as the earlier steps left it                                       *)

\* signUpSchema / updateUserSchema: name
ParseName(v) ==
    IF Len(v) < 2 THEN [success |-> FALSE, data |-> v]
    ELSE IF Len(v) > 255 THEN [success |-> FALSE, data |-> v]
    ELSE [success |-> TRUE, data |-> Trim(v)]

\* an email check without .toLowerCase()
ParseEmailKeepingCase(v) ==
    IF Len(v) <= 255 /\ IsEmail(v)
    THEN [success |-> TRUE, data |-> Trim(v)]
    ELSE [success |-> FALSE, data |-> <<>>]

\* signUpSchema / signInSchema / updateUserSchema: email
ParseEmail(v) ==
    IF ~IsEmail(v) THEN [success |-> FALSE, data |-> v]
    ELSE IF Len(v) > 255 THEN [success |-> FALSE, data |-> v]
    ELSE [success |-> TRUE, data |-> Trim(ToLowerCase(v))]

\* z.enum(['user', 'admin'])
IsRole(v) == v \in {"user", "admin"}

\* signUpSchema.safeParse(req.body)
signUpSchema(body) ==
    LET n == ParseName(body.name)
        e == ParseEmail(body.email)
        pwOk == Len(body.password) >= 8 /\ Len(body.password) <= 128
        roleOk == IsSome(body.role) => IsRole(Get(body.role))
    IN IF n.success /\ e.success /\ pwOk /\ roleOk
       THEN [success |-> TRUE,
             data |-> [name |-> n.data, email |-> e.data,
                       password |-> body.password,
                       role |-> IF IsSome(body.role) THEN Get(body.role) ELSE "user"]]
       ELSE [success |-> FALSE,
             data |-> [name |-> <<>>, email |-> <<>>, password |-> <<>>, role |-> "user"]]

\* signInSchema.safeParse(req.body)
signInSchema(body) ==
    LET e == ParseEmail(body.email)
    IN IF e.success /\ Len(body.password) >= 1
       THEN [success |-> TRUE, data |-> [email |-> e.data, password |-> body.password]]
       ELSE [success |-> FALSE, data |-> [email |-> <<>>, password |-> <<>>]]

\* userIdSchema.safeParse(req.params)
userIdSchema(params) ==
    IF ~IsDigits(params.id) THEN [success |-> FALSE, data |-> [id |-> 0]]
    ELSE IF ~(ParseInt(params.id) > 0) THEN [success |-> FALSE, data |-> [id |-> 0]]
    ELSE [success |-> TRUE, data |-> [id |-> ParseInt(params.id)]]

\* updateUserSchema.safeParse(req.body); a body is a record of optional fields
updateUserSchema(body) ==
    LET n == IF IsSome(body.name) THEN ParseName(Get(body.name))
             ELSE [success |-> TRUE, data |-> <<>>]
        e == IF IsSome(body.email) THEN ParseEmail(Get(body.email))
             ELSE [success |-> TRUE, data |-> <<>>]
        roleOk == IsSome(body.role) => IsRole(Get(body.role))
        keys == {k \in {"name", "email", "role"} : IsSome(body[k])}
    IN IF n.success /\ e.success /\ roleOk /\ Cardinality(keys) > 0
       THEN [success |-> TRUE,
             data |-> [name |-> IF IsSome(body.name) THEN Some(n.data) ELSE None,
                       email |-> IF IsSome(body.email) THEN Some(e.data) ELSE None,
                       role |-> body.role]]
       ELSE [success |-> FALSE, data |-> [name |-> None, email |-> None, role |-> None]]

----------------------------------------------------------------------------
(* Token service (jsonwebtoken behind utils/jwt.js) *)

DEFAULT_SECRET == "your-default-secret-please-change-in-production"

\* const JWT_SECRET = process.env.JWT_SECRET || '<placeholder>'
JWT_SECRET == IF IsSome(env.JWT_SECRET) THEN Get(env.JWT_SECRET) ELSE DEFAULT_SECRET

\* const JWT_EXPIRES_IN = '1d'
JWT_EXPIRES_IN == 1

\* HMAC of the encoded header and payload under a key
Mac(key, payload) == <<key, payload>>

\* a sign that writes the default role into every token
jwtSignDefaultRole(payload, t) ==
    LET p == [id |-> payload.id, email |-> payload.email, role |-> "user",
              iat |-> t, exp |-> t + JWT_EXPIRES_IN]
    IN [payload |-> p, sig |-> Mac(JWT_SECRET, p)]

\* jwttoken.sign(payload) at time t
jwtSign(payload, t) ==
    LET p == [id |-> payload.id, email |-> payload.email, role |-> payload.role,
              iat |-> t, exp |-> t + JWT_EXPIRES_IN]
    IN [payload |-> p, sig |-> Mac(JWT_SECRET, p)]

\* a verifier that checks the signature and not the exp claim
jwtVerifyIgnoringExpiry(token, t) ==
    IF token.sig # Mac(JWT_SECRET, token.payload)
    THEN [threw |-> TRUE, decoded |-> token.payload]
    ELSE [threw |-> FALSE, decoded |-> token.payload]

\* a verifier that checks the exp claim and not the signature
jwtVerifyAnySignature(token, t) ==
    IF t >= token.payload.exp
    THEN [threw |-> TRUE, decoded |-> token.payload]
    ELSE [threw |-> FALSE, decoded |-> token.payload]

\* jwttoken.verify(token) at time t: the decoded payload, or a throw
jwtVerify(token, t) ==
    IF token.sig # Mac(JWT_SECRET, token.payload)
    THEN [threw |-> TRUE, decoded |-> token.payload]
    ELSE IF t >= token.payload.exp
    THEN [threw |-> TRUE, decoded |-> token.payload]
    ELSE [threw |-> FALSE, decoded |-> token.payload]

\* what a client can do to a token it holds without the secret
OtherRole(r) == IF r = "admin" THEN "user" ELSE "admin"
Tamper(token) == [token EXCEPT !.payload.role = OtherRole(@)]
Forge(token) == [token EXCEPT !.sig = Mac("attacker-key", token.payload)]

----------------------------------------------------------------------------
(* Credential hasher (bcrypt behind services/auth.service.js) *)

SALT_ROUNDS == 10

\* bcrypt reads at most the first 72 bytes of the password
Trunc72(p) == IF Len(p) > 72 THEN SubSeq(p, 1, 72) ELSE p

\* hashPassword(password) with the salt bcrypt drew
hashPassword(password, salt) == <<"$2b$", SALT_ROUNDS, salt, Trunc72(password)>>

\* comparePassword(password, hashedPassword)
comparePassword(password, hashedPassword) ==
    hashedPassword = hashPassword(password, hashedPassword[3])

----------------------------------------------------------------------------
(* The users table (models/user.model.js) and the queries the services run  *)

Ids(rows) == DOMAIN rows

\* the columns every users.services select and every "returning" list
Public(row) == [id |-> row.id, name |-> row.name, email |-> row.email,
                role |-> row.role, createdAt |-> row.createdAt,
                updatedAt |-> row.updatedAt]

\* a projection that keeps every column of the row
BriefWholeRow(u) == u

\* the columns createUser returns and the controllers put in "user"
Brief(u) == [id |-> u.id, name |-> u.name, email |-> u.email, role |-> u.role]

\* the email column without its unique constraint
EmailFreeAlways(rows, id, email) == TRUE

\* email varchar(255) notNull unique: may a row with this id carry this email
EmailFree(rows, id, email) ==
    \A i \in Ids(rows) : i # id => rows[i].email # email

\* findUserByEmail(email): the full row, password included, or null
findUserByEmail(rows, email) ==
    IF \E i \in Ids(rows) : rows[i].email = email
    THEN Some(rows[CHOOSE i \in Ids(rows) : rows[i].email = email])
    ELSE None

\* id serial primaryKey: a 32-bit integer column.  SerialMax stands for its
\* largest value, 2^31 - 1, scaled down so that the ids beyond it stay small;
\* a query comparing the column with a larger number is refused by the
\* database ("value out of range for type integer") and the driver throws
SerialMax == 9
OutOfRange(id) == id > SerialMax

\* findUserById(id) (auth.service) and getUserById(id) (users.services)
findUserById(rows, id) ==
    IF id \in Ids(rows) THEN Some(Public(rows[id])) ELSE None

getUserById(rows, id) ==
    IF id \in Ids(rows) THEN Some(Public(rows[id])) ELSE None

\* getAllUsers(): the rows in no promised order
getAllUsers(rows) == {Public(rows[i]) : i \in Ids(rows)}

----------------------------------------------------------------------------
(* Services that write.  Each yields the value returned or the error thrown, *)
(* the table and the sequence as it leaves them, and what it did.            *)

NoError == [message |-> "", statusCode |-> 0]

Returned(value, rows, seq, reads, writes, hashes) ==
    [threw |-> FALSE, error |-> NoError, value |-> Some(value), rows |-> rows,
     seq |-> seq, reads |-> reads, writes |-> writes, hashes |-> hashes]

Thrown(message, statusCode, rows, seq, reads, writes, hashes) ==
    [threw |-> TRUE, error |-> [message |-> message, statusCode |-> statusCode],
     value |-> None, rows |-> rows, seq |-> seq, reads |-> reads,
     writes |-> writes, hashes |-> hashes]

\* a createUser that stores the password as it came
createUserStoringPlaintext(rows, seq, data, salt, t) ==
    IF IsSome(findUserByEmail(rows, data.email))
    THEN Thrown("User with this email already exists", 0, rows, seq, 1, 0, 0)
    ELSE LET row == [id |-> seq, name |-> data.name, email |-> data.email,
                     password |-> data.password,
                     role |-> data.role, createdAt |-> t, updatedAt |-> t]
         IN Returned(Brief(row),
                     [i \in Ids(rows) \cup {seq} |->
                        IF i = seq THEN row ELSE rows[i]],
                     seq + 1, 1, 1, 0)

\* createUser({ name, email, password, role }) (auth.service)
createUser(rows, seq, data, salt, t) ==
    IF IsSome(findUserByEmail(rows, data.email))
    THEN Thrown("User with this email already exists", 0, rows, seq, 1, 0, 0)
    ELSE LET row == [id |-> seq, name |-> data.name, email |-> data.email,
                     password |-> hashPassword(data.password, salt),
                     role |-> data.role, createdAt |-> t, updatedAt |-> t]
         IN IF ~EmailFree(rows, seq, data.email)
            THEN Thrown("duplicate key value violates unique constraint", 0,
                        rows, seq + 1, 1, 0, 1)
            ELSE Returned(Brief(row),
                          [i \in Ids(rows) \cup {seq} |->
                             IF i = seq THEN row ELSE rows[i]],
                          seq + 1, 1, 1, 1)

\* a set() that rewrites the creation time as well
SetColumnsAndCreatedAt(row, updates, t) ==
    [row EXCEPT !.name = IF IsSome(updates.name) THEN Get(updates.name) ELSE @,
                !.email = IF IsSome(updates.email) THEN Get(updates.email) ELSE @,
                !.role = IF IsSome(updates.role) THEN Get(updates.role) ELSE @,
                !.createdAt = t,
                !.updatedAt = t]

\* db.update(users).set({ ...updates, updatedAt: new Date() })
SetColumns(row, updates, t) ==
    [row EXCEPT !.name = IF IsSome(updates.name) THEN Get(updates.name) ELSE @,
                !.email = IF IsSome(updates.email) THEN Get(updates.email) ELSE @,
                !.role = IF IsSome(updates.role) THEN Get(updates.role) ELSE @,
                !.updatedAt = t]

\* updateUser(id, updates) (users.services)
updateUserService(rows, seq, id, updates, t) ==
    IF OutOfRange(id)
    THEN Thrown("value out of range for type integer", 0, rows, seq, 1, 0, 0)
    ELSE IF ~IsSome(getUserById(rows, id))
    THEN Thrown("User not found", 404, rows, seq, 1, 0, 0)
    ELSE LET row == SetColumns(rows[id], updates, t)
         IN IF ~EmailFree(rows, id, row.email)
            THEN Thrown("duplicate key value violates unique constraint", 0,
                        rows, seq, 1, 0, 0)
            ELSE Returned(Public(row), [rows EXCEPT ![id] = row], seq, 1, 1, 0)

\* a deleteUser that runs the delete before it looks for the row
deleteUserServiceDeletingFirst(rows, seq, id) ==
    IF OutOfRange(id)
    THEN Thrown("value out of range for type integer", 0, rows, seq, 1, 0, 0)
    ELSE LET left == [i \in Ids(rows) \ {id} |-> rows[i]]
         IN IF ~IsSome(getUserById(left, id))
            THEN Thrown("User not found", 404, left, seq, 1, 1, 0)
            ELSE Returned(Public(left[id]), left, seq, 1, 1, 0)

\* deleteUser(id) (users.services)
deleteUserService(rows, seq, id) ==
    IF OutOfRange(id)
    THEN Thrown("value out of range for type integer", 0, rows, seq, 1, 0, 0)
    ELSE IF ~IsSome(getUserById(rows, id))
    THEN Thrown("User not found", 404, rows, seq, 1, 0, 0)
    ELSE Returned(Public(rows[id]),
                  [i \in Ids(rows) \ {id} |-> rows[i]], seq, 1, 1, 0)

----------------------------------------------------------------------------
(* Responses *)

NoCookie == [op |-> "none", value |-> None]
SetCookie(token) == [op |-> "set", value |-> Some(token)]
ClearCookie == [op |-> "clear", value |-> None]

\* res.status(..).json({ error, message, user })
Json(error, message, user) ==
    [error |-> error, message |-> message, user |-> user, users |-> None]

\* res.json({ message, users, count })
JsonList(message, all) ==
    [error |-> "", message |-> message, user |-> None, users |-> Some(all)]

\* what a middleware or controller leaves behind: the response, the table,
\* the token it signed, and what ran
Outcome(status, body, cookie, rows, seq, reads, writes, hashes) ==
    [status |-> status, body |-> body, cookie |-> cookie, rows |-> rows,
     seq |-> seq, reads |-> reads, writes |-> writes, hashes |-> hashes]

\* next(error): Express's default error handler
NextError(rows, seq, reads, writes, hashes) ==
    Outcome(500, Json("Internal Server Error", "", None), NoCookie,
            rows, seq, reads, writes, hashes)

----------------------------------------------------------------------------
(* Middleware *)

\* what client.protect(req) can yield under the rules of config/arcjet.js:
\* allow; deny for bot, shield or rate limit; an errored decision, which is
\* how the client reports that the service failed (isDenied() is false);
\* or an exception thrown inside the try block
Decisions == {"allow", "bot", "shield", "rateLimit", "error", "throw"}

\* securityMiddleware(req, res, next) for the decision client.protect(req) gave
securityMiddleware(decision, reqUser) ==
    LET role == IF IsSome(reqUser) THEN Get(reqUser).role ELSE "guest"
    IN IF decision = "throw"
       THEN [next |-> FALSE, status |-> 500, role |-> role,
             body |-> Json("Internal Server Error",
                           "Something went wrong with security middleware.", None)]
       ELSE IF decision = "bot"
       THEN [next |-> FALSE, status |-> 403, role |-> role,
             body |-> Json("Forbidden", "Automated bot traffic is not allowed.", None)]
       ELSE IF decision = "shield"
       THEN [next |-> FALSE, status |-> 403, role |-> role,
             body |-> Json("Forbidden", "Request blocked by security policy.", None)]
       ELSE IF decision = "rateLimit"
       THEN [next |-> FALSE, status |-> 429, role |-> role,
             body |-> Json("Too Many Requests", role, None)]
       ELSE [next |-> TRUE, status |-> 0, role |-> role, body |-> Json("", "", None)]

\* an authenticate that trusts the email and role written in the token
authenticateFromClaims(rows, t, cookie) ==
    IF ~IsSome(cookie)
    THEN [next |-> FALSE, status |-> 401, user |-> None, reads |-> 0,
          body |-> Json("", "Authentication required", None)]
    ELSE LET v == jwtVerify(Get(cookie), t)
         IN IF v.threw
            THEN [next |-> FALSE, status |-> 401, user |-> None, reads |-> 0,
                  body |-> Json("", "Invalid or expired token", None)]
            ELSE IF ~IsSome(findUserById(rows, v.decoded.id))
            THEN [next |-> FALSE, status |-> 401, user |-> None, reads |-> 1,
                  body |-> Json("", "User not found", None)]
            ELSE [next |-> TRUE, status |-> 0, reads |-> 1,
                  user |-> Some([Get(findUserById(rows, v.decoded.id))
                                   EXCEPT !.email = v.decoded.email,
                                          !.role = v.decoded.role]),
                  body |-> Json("", "", None)]

\* authenticate(req, res, next): cookie is cookies.get(req, 'token')
authenticate(rows, t, cookie) ==
    IF ~IsSome(cookie)
    THEN [next |-> FALSE, status |-> 401, user |-> None, reads |-> 0,
          body |-> Json("", "Authentication required", None)]
    ELSE LET v == jwtVerify(Get(cookie), t)
         IN IF v.threw
            THEN [next |-> FALSE, status |-> 401, user |-> None, reads |-> 0,
                  body |-> Json("", "Invalid or expired token", None)]
            ELSE IF ~IsSome(findUserById(rows, v.decoded.id))
            THEN [next |-> FALSE, status |-> 401, user |-> None, reads |-> 1,
                  body |-> Json("", "User not found", None)]
            ELSE [next |-> TRUE, status |-> 0, reads |-> 1,
                  user |-> findUserById(rows, v.decoded.id),
                  body |-> Json("", "", None)]

\* roles.includes(role)
Includes(roles, role) == \E i \in 1..Len(roles) : roles[i] = role

\* an authorize that asks for an identity and not for its role
authorizeAnyRole(roles, reqUser) ==
    IF ~IsSome(reqUser)
    THEN [next |-> FALSE, status |-> 401, message |-> "Authentication required"]
    ELSE [next |-> TRUE, status |-> 0, message |-> ""]

\* authorize(...roles)(req, res, next)
authorize(roles, reqUser) ==
    IF ~IsSome(reqUser)
    THEN [next |-> FALSE, status |-> 401, message |-> "Authentication required"]
    ELSE IF ~Includes(roles, Get(reqUser).role)
    THEN [next |-> FALSE, status |-> 403, message |-> "Insufficient permissions"]
    ELSE [next |-> TRUE, status |-> 0, message |-> ""]

----------------------------------------------------------------------------
(* Controllers *)

\* a 400 sent after the table was consulted
ValidationFailedAfterLookup(rows, seq) ==
    Outcome(400, Json("Validation failed", "", None), NoCookie, rows, seq, 1, 0, 0)

\* res.status(400).json({ error: 'Validation failed', details })
ValidationFailed(rows, seq) ==
    Outcome(400, Json("Validation failed", "", None), NoCookie, rows, seq, 0, 0, 0)

\* signup(req, res, next)
signup(rows, seq, t, body, salt) ==
    LET v == signUpSchema(body)
        c == createUser(rows, seq, v.data, salt, t)
    IN IF ~v.success THEN ValidationFailed(rows, seq)
       ELSE IF c.threw /\ c.error.message = "User with this email already exists"
       THEN Outcome(409, Json("", "Email already exists", None), NoCookie,
                    c.rows, c.seq, c.reads, c.writes, c.hashes)
       ELSE IF c.threw
       THEN NextError(c.rows, c.seq, c.reads, c.writes, c.hashes)
       ELSE LET user == Get(c.value)
                token == jwtSign([id |-> user.id, email |-> user.email,
                                  role |-> user.role], t)
            IN Outcome(201, Json("", "User registered successfully",
                                 Some(Brief(user))),
                       SetCookie(token), c.rows, c.seq, c.reads, c.writes, c.hashes)

\* a signin that tells an unknown email from a wrong password
signinRevealingUnknown(rows, seq, t, body) ==
    LET v == signInSchema(body)
        found == findUserByEmail(rows, v.data.email)
    IN IF ~v.success THEN ValidationFailed(rows, seq)
       ELSE IF ~IsSome(found)
       THEN Outcome(404, Json("", "User not found", None), NoCookie,
                    rows, seq, 1, 0, 0)
       ELSE IF ~comparePassword(v.data.password, Get(found).password)
       THEN Outcome(401, Json("", "Invalid email or password", None), NoCookie,
                    rows, seq, 1, 0, 1)
       ELSE LET user == Get(found)
                token == jwtSign([id |-> user.id, email |-> user.email,
                                  role |-> user.role], t)
            IN Outcome(200, Json("", "User signed in successfully",
                                 Some(Brief(user))),
                       SetCookie(token), rows, seq, 1, 0, 1)

\* signin(req, res, next)
signin(rows, seq, t, body) ==
    LET v == signInSchema(body)
        found == findUserByEmail(rows, v.data.email)
    IN IF ~v.success THEN ValidationFailed(rows, seq)
       ELSE IF ~IsSome(found)
       THEN Outcome(401, Json("", "Invalid email or password", None), NoCookie,
                    rows, seq, 1, 0, 0)
       ELSE IF ~comparePassword(v.data.password, Get(found).password)
       THEN Outcome(401, Json("", "Invalid email or password", None), NoCookie,
                    rows, seq, 1, 0, 1)
       ELSE LET user == Get(found)
                token == jwtSign([id |-> user.id, email |-> user.email,
                                  role |-> user.role], t)
            IN Outcome(200, Json("", "User signed in successfully",
                                 Some(Brief(user))),
                       SetCookie(token), rows, seq, 1, 0, 1)

\* a signout that ends the session on the server by removing the account
signoutDeletingAccount(rows, seq, reqUser) ==
    Outcome(200, Json("", "User signed out successfully", None), ClearCookie,
            IF IsSome(reqUser)
            THEN [i \in Ids(rows) \ {Get(reqUser).id} |-> rows[i]]
            ELSE rows,
            seq, 0, 1, 0)

\* signout(req, res, next)
signout(rows, seq, reqUser) ==
    Outcome(200, Json("", "User signed out successfully", None), ClearCookie,
            rows, seq, 0, 0, 0)

\* getCurrentUser(req, res, next)
getCurrentUser(rows, seq, reqUser) ==
    IF ~IsSome(reqUser) THEN NextError(rows, seq, 0, 0, 0)
    ELSE Outcome(200, Json("", "", Some(Brief(Get(reqUser)))), NoCookie,
                 rows, seq, 0, 0, 0)

\* fetchAllUsers(req, res, next)
fetchAllUsers(rows, seq) ==
    Outcome(200, JsonList("Users fetched successfully", getAllUsers(rows)),
            NoCookie, rows, seq, 1, 0, 0)

\* fetchUserById(req, res, next)
fetchUserById(rows, seq, params) ==
    LET v == userIdSchema(params)
    IN IF ~v.success THEN ValidationFailed(rows, seq)
       ELSE IF OutOfRange(v.data.id) THEN NextError(rows, seq, 1, 0, 0)
       ELSE IF ~IsSome(getUserById(rows, v.data.id))
       THEN Outcome(404, Json("", "User not found", None), NoCookie,
                    rows, seq, 1, 0, 0)
       ELSE Outcome(200, Json("", "User fetched successfully",
                              getUserById(rows, v.data.id)),
                    NoCookie, rows, seq, 1, 0, 0)

\* what the catch blocks of updateUser and deleteUser do with a thrown error
CatchStatusCode(s) ==
    IF s.error.statusCode = 404
    THEN Outcome(404, Json("", s.error.message, None), NoCookie,
                 s.rows, s.seq, s.reads, s.writes, s.hashes)
    ELSE NextError(s.rows, s.seq, s.reads, s.writes, s.hashes)

\* updateUser(req, res, next); reading currentUser.id throws when req.user
\* is undefined
updateUser(rows, seq, t, params, body, reqUser) ==
    LET idv == userIdSchema(params)
        bv == updateUserSchema(body)
        id == idv.data.id
        s == updateUserService(rows, seq, id, bv.data, t)
    IN IF ~idv.success THEN ValidationFailed(rows, seq)
       ELSE IF ~bv.success THEN ValidationFailed(rows, seq)
       ELSE IF ~IsSome(reqUser) THEN NextError(rows, seq, 0, 0, 0)
       ELSE IF Get(reqUser).id # id /\ Get(reqUser).role # "admin"
       THEN Outcome(403, Json("", "You can only update your own profile", None),
                    NoCookie, rows, seq, 0, 0, 0)
       ELSE IF IsSome(bv.data.role) /\ Get(reqUser).role # "admin"
       THEN Outcome(403, Json("", "Only administrators can change user roles",
                              None),
                    NoCookie, rows, seq, 0, 0, 0)
       ELSE IF s.threw THEN CatchStatusCode(s)
       ELSE Outcome(200, Json("", "User updated successfully", s.value),
                    NoCookie, s.rows, s.seq, s.reads, s.writes, s.hashes)

\* deleteUser(req, res, next)
deleteUser(rows, seq, params, reqUser) ==
    LET v == userIdSchema(params)
        id == v.data.id
        s == deleteUserService(rows, seq, id)
    IN IF ~v.success THEN ValidationFailed(rows, seq)
       ELSE IF ~IsSome(reqUser) THEN NextError(rows, seq, 0, 0, 0)
       ELSE IF Get(reqUser).id # id /\ Get(reqUser).role # "admin"
       THEN Outcome(403, Json("", "You do not have permission to delete this user",
                              None),
                    NoCookie, rows, seq, 0, 0, 0)
       ELSE IF s.threw THEN CatchStatusCode(s)
       ELSE Outcome(200, Json("", "User deleted successfully", s.value),
                    NoCookie, s.rows, s.seq, s.reads, s.writes, s.hashes)

----------------------------------------------------------------------------
(* Routes (app.js, routes/auth.routes.js, routes/users.routes.js) *)

Ops == {"signup", "signin", "signout", "me", "list", "get", "update", "delete"}

\* a router that puts authenticate before getCurrentUser only
RouteAuthenticatesMeOnly(op) == op \in {"me"}

\* the routes whose chain names authenticate before the controller
RouteAuthenticates(op) == op \in {"signout", "me"}

NoBody == [none |-> TRUE]

Request(op, decision, cookie, id, body) ==
    [op |-> op, decision |-> decision, cookie |-> cookie,
     params |-> [id |-> id], body |-> body]

\* the controller the router calls for a request, with req.user as the chain
\* before it left it
Controller(r, reqUser, salt) ==
    CASE r.op = "signup" -> signup(users, nextId, now, r.body, salt)
      [] r.op = "signin" -> signin(users, nextId, now, r.body)
      [] r.op = "signout" -> signout(users, nextId, reqUser)
      [] r.op = "me" -> getCurrentUser(users, nextId, reqUser)
      [] r.op = "list" -> fetchAllUsers(users, nextId)
      [] r.op = "get" -> fetchUserById(users, nextId, r.params)
      [] r.op = "update" -> updateUser(users, nextId, now, r.params, r.body, reqUser)
      [] r.op = "delete" -> deleteUser(users, nextId, r.params, reqUser)

Trace(sec, limitRole, gate, user, handler, reads, writes, hashes) ==
    [sec |-> sec, limitRole |-> limitRole, gate |-> gate, user |-> user,
     handler |-> handler, reads |-> reads, writes |-> writes, hashes |-> hashes]

\* how far down the chain a request went
Chain(sec, limitRole, gate, user, handler) ==
    [sec |-> sec, limitRole |-> limitRole, gate |-> gate, user |-> user,
     handler |-> handler]

\* the trace of a request: its chain, with what its handler did if it ran
Ran(chain, out) ==
    Trace(chain.sec, chain.limitRole, chain.gate, chain.user, chain.handler,
          IF chain.handler THEN out.reads ELSE 0,
          IF chain.handler THEN out.writes ELSE 0,
          IF chain.handler THEN out.hashes ELSE 0)

\* one request through app.use(securityMiddleware), the route's chain and
\* the controller: the outcome, with how far the request went
Serve(r, salt) ==
    LET sec == securityMiddleware(r.decision, None)
        a == authenticate(users, now, r.cookie)
        gated == RouteAuthenticates(r.op)
        reqUser == IF gated THEN a.user ELSE None
    IN IF ~sec.next
       THEN [out |-> Outcome(sec.status, sec.body, NoCookie, users, nextId, 0, 0, 0),
             chain |-> Chain(FALSE, sec.role, "none", None, FALSE)]
       ELSE IF gated /\ ~a.next
       THEN [out |-> Outcome(a.status, a.body, NoCookie, users, nextId, a.reads, 0, 0),
             chain |-> Chain(TRUE, sec.role, "rejected", None, FALSE)]
       ELSE [out |-> Controller(r, reqUser, salt),
             chain |-> Chain(TRUE, sec.role, IF gated THEN "passed" ELSE "none",
                             reqUser, TRUE)]

----------------------------------------------------------------------------
(* Requests a client sends *)

Denials == Decisions \ {"allow"}

\* requests for which the protection service answers something else than
\* allow, whatever they ask for
BlockedOps == {"list"}
Denied == {Request(op, d, None, <<>>, NoBody) : op \in BlockedOps, d \in Denials}

SignUpBodies ==
    {[name |-> Str_Jo, email |-> e, password |-> Str_pw, role |-> None] :
        e \in EmailInputs}
    \cup {[name |-> Str_Jo, email |-> Str_AB, password |-> Str_pw, role |-> Some("admin")],
          [name |-> Str_Jo, email |-> Str_cd, password |-> Str_pw, role |-> Some("admin")],
          [name |-> Str_Jo, email |-> Str_cd, password |-> Str_pw, role |-> Some("root")],
          [name |-> Str_J, email |-> Str_cd, password |-> Str_pw, role |-> None],
          [name |-> Str_Jo, email |-> Str_cd, password |-> Str_x, role |-> None]}

SignInBodies ==
    {[email |-> e, password |-> p] : e \in {Str_AB, Str_cd}, p \in {Str_pw, Str_x}}
    \cup {[email |-> Str_noAt, password |-> Str_pw],
          [email |-> Str_ab, password |-> <<>>]}

UpdateName == [name |-> Some(Str_Jo), email |-> None, role |-> None]
UpdateNothing == [name |-> None, email |-> None, role |-> None]
UpdateRole == [name |-> None, email |-> None, role |-> Some("admin")]
UpdateInputs == {[id |-> <<"1">>, body |-> UpdateName],
                 [id |-> <<"1">>, body |-> UpdateRole],
                 [id |-> <<"2">>, body |-> UpdateName],
                 [id |-> <<"1">>, body |-> UpdateNothing],
                 [id |-> <<"a">>, body |-> UpdateName]}

\* the token cookies the client can send: none, the one it holds, or one
\* it altered or signed itself
HeldCookies == {None, jar}
Cookies == HeldCookies \cup
           (IF IsSome(jar)
            THEN {Some(Tamper(Get(jar))), Some(Forge(Get(jar)))}
            ELSE {})

Requests(op) ==
    CASE op = "signup" -> {Request(op, "allow", None, <<>>, b) : b \in SignUpBodies}
      [] op = "signin" -> {Request(op, "allow", None, <<>>, b) : b \in SignInBodies}
      [] op = "signout" -> {Request(op, "allow", c, <<>>, NoBody) : c \in Cookies}
      [] op = "me" -> {Request(op, "allow", c, <<>>, NoBody) : c \in Cookies}
      [] op = "list" -> {Request(op, "allow", c, <<>>, NoBody) : c \in HeldCookies}
      [] op = "get" -> {Request(op, "allow", c, i, NoBody) :
                           c \in HeldCookies, i \in IdInputs \cup {Str_99}}
      [] op = "update" -> {Request(op, "allow", c, u.id, u.body) :
                              c \in HeldCookies, u \in UpdateInputs}
      [] op = "delete" -> {Request(op, "allow", c, i, NoBody) :
                              c \in HeldCookies, i \in IdInputs \ {<<"0">>}}

----------------------------------------------------------------------------
(* The state machine *)

EnvConfigs ==
    {[JWT_SECRET |-> Some("configured-secret"), NODE_ENV |-> "production"]}

NoRequest == Request("none", "allow", None, <<>>, NoBody)
NoResponse == [status |-> 0, body |-> Json("", "", None), cookie |-> NoCookie,
               trace |-> Trace(FALSE, "guest", "none", None, FALSE, 0, 0, 0)]
AzIdle == [roles |-> <<>>, user |-> None, status |-> 0, next |-> FALSE,
           done |-> FALSE]
CallIdle == [fn |-> "none"]
NoFlights == <<>>

Init ==
    /\ users = <<>>
    /\ nextId = 1
    /\ now = 0
    /\ jar = None
    /\ req = NoRequest
    /\ res = NoResponse
    /\ env \in EnvConfigs
    /\ az = AzIdle
    /\ call = CallIdle
    /\ flights = NoFlights

\* the server answers request r
Handle(r, salt) ==
    /\ req = NoRequest
    /\ \E s \in {Serve(r, salt)} :
          /\ s.out.seq <= MaxUsers + 1
          /\ users' = s.out.rows
          /\ nextId' = s.out.seq
          /\ req' = r
          /\ res' = [status |-> s.out.status, body |-> s.out.body,
                      cookie |-> s.out.cookie, trace |-> Ran(s.chain, s.out)]
    /\ UNCHANGED <<now, jar, env, az, call, flights>>

\* the client receives the response: it obeys the Set-Cookie header (the
\* new token replaces the one held, a cleared cookie is dropped) or ignores it
Receive ==
    /\ req # NoRequest
    /\ \/ jar' = jar
       \/ /\ res.cookie.op = "set"
          /\ jar' = res.cookie.value
       \/ /\ res.cookie.op = "clear"
          /\ jar' = None
    /\ req' = NoRequest
    /\ res' = NoResponse
    /\ UNCHANGED <<users, nextId, now, env, az, call, flights>>

SignUp == \E r \in Requests("signup"), salt \in Salts : Handle(r, salt)
SignIn == \E r \in Requests("signin") : Handle(r, "unused")
SignOut == \E r \in Requests("signout") : Handle(r, "unused")
Me == \E r \in Requests("me") : Handle(r, "unused")
ListUsers == \E r \in Requests("list") : Handle(r, "unused")
GetUser == \E r \in Requests("get") : Handle(r, "unused")
UpdateUser == \E r \in Requests("update") : Handle(r, "unused")
DeleteUser == \E r \in Requests("delete") : Handle(r, "unused")
Blocked == \E r \in Denied : Handle(r, "unused")

\* the users service called by code other than its route: the result is in
\* res.body, with status 0 since no HTTP response is made
ServiceCall(op, id, body, s) ==
    /\ req = NoRequest
    /\ users' = s.rows
    /\ nextId' = s.seq
    /\ req' = Request(op, "allow", None, id, body)
    /\ res' = [status |-> 0,
                body |-> Json(s.error.message, "", s.value),
                cookie |-> NoCookie,
                trace |-> Trace(FALSE, "guest", "none", None, FALSE,
                                s.reads, s.writes, s.hashes)]
    /\ UNCHANGED <<now, jar, env, az, call, flights>>

ServiceUpdates ==
    {[name |-> None, email |-> None, role |-> Some("admin")],
     [name |-> None, email |-> Some(Str_AB), role |-> None]}

CallUpdateUser ==
    \E id \in 1..MaxUsers, body \in ServiceUpdates :
        /\ updateUserSchema(body).success
        /\ ServiceCall("updateUserService", <<id>>, body,
                        updateUserService(users, nextId, id,
                                          updateUserSchema(body).data, now))

CallDeleteUser ==
    \E id \in 1..MaxUsers :
        ServiceCall("deleteUserService", <<id>>, NoBody,
                    deleteUserService(users, nextId, id))

\* time passes
Tick ==
    /\ req = NoRequest
    /\ now < MaxTime
    /\ now' = now + 1
    /\ UNCHANGED <<users, nextId, jar, req, res, env, az, call, flights>>

Next ==
    \/ SignUp
    \/ SignIn
    \/ SignOut
    \/ Me
    \/ ListUsers
    \/ GetUser
    \/ UpdateUser
    \/ DeleteUser
    \/ Blocked
    \/ CallUpdateUser
    \/ CallDeleteUser
    \/ Receive
    \/ Tick

Spec == Init /\ [][Next]_vars

----------------------------------------------------------------------------
(* authorize(...roles) applied on its own: no route of the application uses *)
(* it, so it is exercised over every list of allowed roles and every        *)
(* identity authenticate can have attached                                  *)

RoleNames == {"user", "admin", "guest"}

RoleLists == UNION {[1..n -> RoleNames] : n \in 0..MaxAllowedRoles}

Identities ==
    {None} \cup
    {Some([id |-> i, name |-> Str_Jo, email |-> Str_ab, role |-> r,
           createdAt |-> 0, updatedAt |-> 0]) :
        i \in 1..MaxUsers, r \in {"user", "admin"}}

InitAuthorize ==
    /\ users = <<>>
    /\ nextId = 1
    /\ now = 0
    /\ jar = None
    /\ req = NoRequest
    /\ res = NoResponse
    /\ env \in EnvConfigs
    /\ az \in {[roles |-> r, user |-> u, status |-> 0, next |-> FALSE,
                 done |-> FALSE] : r \in RoleLists, u \in Identities}
    /\ call = CallIdle
    /\ flights = NoFlights

ApplyAuthorize ==
    /\ ~az.done
    /\ az' = [az EXCEPT !.status = authorize(az.roles, az.user).status,
                        !.next = authorize(az.roles, az.user).next,
                        !.done = TRUE]
    /\ UNCHANGED <<users, nextId, now, jar, req, res, env, call, flights>>

NextAuthorize == ApplyAuthorize

SpecAuthorize == InitAuthorize /\ [][NextAuthorize]_vars

----------------------------------------------------------------------------
(* jwttoken.sign and jwttoken.verify on their own: a claims record is       *)
(* signed once, with the process secret or with another key, and verified   *)
(* at any later time                                                        *)

ClaimsInputs ==
    {[id |-> i, email |-> e, role |-> r] :
        i \in 1..MaxUsers, e \in {Str_ab, Str_cd}, r \in {"user", "admin"}}

\* how the process is started: main() of scripts/docker-prod.js exits unless
\* .env.production names JWT_SECRET, and the image sets NODE_ENV=production;
\* node src/index.js, docker run and docker compose start the process with
\* whatever the environment holds
Launchers == {"docker-prod.js", "node"}
Launches(launcher, e) ==
    launcher = "docker-prod.js"
    => (IsSome(e.JWT_SECRET) /\ e.NODE_ENV = "production")

\* process.env as utils/jwt.js can find it when the module is loaded
TokenEnvConfigs ==
    {e \in [JWT_SECRET : {None, Some("configured-secret")},
            NODE_ENV : {"production", "development"}] :
        \E l \in Launchers : Launches(l, e)}

InitToken ==
    /\ users = <<>>
    /\ nextId = 1
    /\ now = 0
    /\ jar = None
    /\ req = NoRequest
    /\ res = NoResponse
    /\ env \in TokenEnvConfigs
    /\ az = AzIdle
    /\ flights = NoFlights
    /\ call \in {[fn |-> "jwttoken", claims |-> c, key |-> k, token |-> None,
                   signedAt |-> 0, verdict |-> None] :
                     c \in ClaimsInputs, k \in {"process", "other"}}

TokenSign ==
    /\ ~IsSome(call.token)
    /\ call' = [call EXCEPT
                  !.token = Some(IF call.key = "process"
                                 THEN jwtSign(call.claims, now)
                                 ELSE Forge(jwtSign(call.claims, now))),
                  !.signedAt = now]
    /\ UNCHANGED <<users, nextId, now, jar, req, res, env, az, flights>>

TokenVerify ==
    /\ IsSome(call.token)
    /\ \E v \in {jwtVerify(Get(call.token), now)} :
          call' = [call EXCEPT
                     !.verdict = Some([at |-> now, threw |-> v.threw,
                                       decoded |-> IF v.threw THEN None
                                                   ELSE Some(v.decoded)])]
    /\ UNCHANGED <<users, nextId, now, jar, req, res, env, az, flights>>

TokenTick ==
    /\ now < MaxTime
    /\ now' = now + 1
    /\ UNCHANGED <<users, nextId, jar, req, res, env, az, call, flights>>

NextToken ==
    \/ TokenSign
    \/ TokenVerify
    \/ TokenTick

SpecToken == InitToken /\ [][NextToken]_vars

----------------------------------------------------------------------------
(* hashPassword and comparePassword on their own: a password of valid       *)
(* length is hashed under a salt and a candidate is compared with the hash  *)

Str_pv == <<"p", "a", "s", "s", "w", "o", "r", "e">>
Str_72x == [i \in 1..72 |-> "x"]
Str_73a == [i \in 1..73 |-> IF i = 73 THEN "a" ELSE "x"]
Str_73b == [i \in 1..73 |-> IF i = 73 THEN "b" ELSE "x"]

PasswordInputs == {Str_pw, Str_pv, Str_72x, Str_73a, Str_73b}
HasherSalts == {"salt", "pepper"}

InitHasher ==
    /\ users = <<>>
    /\ nextId = 1
    /\ now = 0
    /\ jar = None
    /\ req = NoRequest
    /\ res = NoResponse
    /\ env \in EnvConfigs
    /\ az = AzIdle
    /\ flights = NoFlights
    /\ call \in {[fn |-> "bcrypt", password |-> p, candidate |-> w, salt |-> x,
                   hash |-> None, result |-> None] :
                     p \in PasswordInputs, w \in PasswordInputs,
                     x \in HasherSalts}

HasherHash ==
    /\ ~IsSome(call.hash)
    /\ call' = [call EXCEPT !.hash = Some(hashPassword(call.password, call.salt))]
    /\ UNCHANGED <<users, nextId, now, jar, req, res, env, az, flights>>

HasherCompare ==
    /\ IsSome(call.hash)
    /\ ~IsSome(call.result)
    /\ call' = [call EXCEPT
                  !.result = Some(comparePassword(call.candidate, Get(call.hash)))]
    /\ UNCHANGED <<users, nextId, now, jar, req, res, env, az, flights>>

NextHasher ==
    \/ HasherHash
    \/ HasherCompare

SpecHasher == InitHasher /\ [][NextHasher]_vars

----------------------------------------------------------------------------
(* The name rule on its own: signups and updates whose names differ in      *)
(* length and padding, everything else in the request being valid           *)

Str_J_padded == <<" ", "J", " ">>
Str_Jo_padded == <<"J", "o", " ">>
Str_255n == [i \in 1..255 |-> "n"]
Str_256n == [i \in 1..256 |-> "n"]

NameInputs == {Str_Jo, Str_J, Str_Blank2, Str_J_padded, Str_Jo_padded,
               Str_255n, Str_256n}

NameSignUp ==
    \E n \in NameInputs, e \in {Str_ab, Str_cd}, salt \in Salts :
        Handle(Request("signup", "allow", None, <<>>,
                       [name |-> n, email |-> e, password |-> Str_pw,
                        role |-> None]), salt)

\* PUT /users/:id with a name only
NameUpdate ==
    \E n \in NameInputs, c \in HeldCookies :
        Handle(Request("update", "allow", c, <<"1">>,
                       [name |-> Some(n), email |-> None, role |-> None]),
               "unused")

\* the users service given the data updateUserSchema let through
NameCallUpdate ==
    \E n \in NameInputs, id \in 1..MaxUsers :
        \E v \in {updateUserSchema([name |-> Some(n), email |-> None,
                                     role |-> None])} :
            /\ v.success
            /\ ServiceCall("updateUserService", <<id>>,
                            [name |-> Some(n), email |-> None, role |-> None],
                            updateUserService(users, nextId, id, v.data, now))

NextNames ==
    \/ NameSignUp
    \/ NameUpdate
    \/ NameCallUpdate
    \/ Receive

SpecNames == Init /\ [][NextNames]_vars

----------------------------------------------------------------------------
(* Requests served at the same time.  Each await of a handler or a service  *)
(* is a point where another request may run: a flight holds one request     *)
(* and its position between those points.                                   *)

Str_jd == <<"j", "@", "d", ".", "c", "o">>

\* the table when the flights start: an admin and a user
RaceTable ==
    [i \in {1, 2} |->
        [id |-> i, name |-> Str_Jo,
         email |-> IF i = 1 THEN Str_ab ELSE Str_cd,
         password |-> hashPassword(Str_pw, "salt"),
         role |-> IF i = 1 THEN "admin" ELSE "user",
         createdAt |-> 0, updatedAt |-> 0]]

\* what can go wrong inside a signup: bcrypt.hash rejecting (rethrown as
\* 'Error hashing'), jwt.sign throwing (rethrown as 'Failed to authenticate
\* token')
Faults == {"none", "hash", "sign"}

Flight(op, gated, cookie, target, body, fault) ==
    [op |-> op, pc |-> "start", gated |-> gated, cookie |-> cookie,
     target |-> target, body |-> body, fault |-> fault, reqUser |-> None,
     status |-> 0, user |-> None, sent |-> NoCookie, created |-> None,
     wrote |-> FALSE]

\* res.status(status).json({ user }), with the cookie set before it
Answer(f, status, user, sent) ==
    [f EXCEPT !.pc = "done", !.status = status, !.user = user, !.sent = sent]

SignupFlights ==
    {Flight("signup", FALSE, None, 0,
            [name |-> Str_Jo, email |-> e, password |-> p, role |-> None], x) :
        e \in {Str_jd, Str_cd}, p \in {Str_pw, Str_x}, x \in Faults}

\* signUpSchema.safeParse(req.body)
SignupValidate(p) ==
    /\ flights[p].op = "signup" /\ flights[p].pc = "start"
    /\ flights' = [flights EXCEPT ![p] =
          IF ~signUpSchema(@.body).success
          THEN Answer(@, 400, None, NoCookie)
          ELSE [@ EXCEPT !.pc = "valid"]]
    /\ UNCHANGED <<users, nextId, now, jar, req, res, env, az, call>>

\* createUser: await db.select().from(users).where(eq(users.email, email))
SignupCheck(p) ==
    /\ flights[p].op = "signup" /\ flights[p].pc = "valid"
    /\ flights' = [flights EXCEPT ![p] =
          IF IsSome(findUserByEmail(users, signUpSchema(@.body).data.email))
          THEN Answer(@, 409, None, NoCookie)
          ELSE [@ EXCEPT !.pc = "checked"]]
    /\ UNCHANGED <<users, nextId, now, jar, req, res, env, az, call>>

\* createUser: await hashPassword(password)
SignupHash(p) ==
    /\ flights[p].op = "signup" /\ flights[p].pc = "checked"
    /\ flights' = [flights EXCEPT ![p] =
          IF @.fault = "hash"
          THEN Answer(@, 500, None, NoCookie)
          ELSE [@ EXCEPT !.pc = "hashed"]]
    /\ UNCHANGED <<users, nextId, now, jar, req, res, env, az, call>>

\* createUser: await db.insert(users).values(...).returning(...); the unique
\* constraint refuses an email that a row holds by now
SignupInsert(p) ==
    /\ flights[p].op = "signup" /\ flights[p].pc = "hashed"
    /\ \E d \in {signUpSchema(flights[p].body).data} :
          IF ~EmailFree(users, nextId, d.email)
          THEN /\ flights' = [flights EXCEPT ![p] =
                                 Answer(@, 500, None, NoCookie)]
               /\ users' = users
          ELSE /\ users' = [i \in Ids(users) \cup {nextId} |->
                              IF i = nextId
                              THEN [id |-> nextId, name |-> d.name,
                                    email |-> d.email,
                                    password |-> hashPassword(d.password, "salt"),
                                    role |-> d.role,
                                    createdAt |-> now, updatedAt |-> now]
                              ELSE users[i]]
               /\ flights' = [flights EXCEPT ![p] =
                                 [@ EXCEPT !.pc = "created",
                                           !.created = Some(nextId),
                                           !.wrote = TRUE]]
    /\ nextId' = nextId + 1
    /\ UNCHANGED <<now, jar, req, res, env, az, call>>

\* signup: jwttoken.sign, cookies.set, res.status(201).json; the user in the
\* response is the record createUser returned
SignupRespond(p) ==
    /\ flights[p].op = "signup" /\ flights[p].pc = "created"
    /\ \E d \in {signUpSchema(flights[p].body).data} :
       \E u \in {[id |-> Get(flights[p].created), name |-> d.name,
                  email |-> d.email, role |-> d.role]} :
          flights' = [flights EXCEPT ![p] =
             IF @.fault = "sign"
             THEN Answer(@, 500, None, NoCookie)
             ELSE Answer(@, 201, Some(u), SetCookie(jwtSign(u, now)))]
    /\ UNCHANGED <<users, nextId, now, jar, req, res, env, az, call>>

\* the session cookie of a user of RaceTable, as sign-in set it
SessionOf(i) ==
    Some(jwtSign([id |-> i, email |-> RaceTable[i].email,
                  role |-> RaceTable[i].role], 0))

UpdateDemote == [name |-> None, email |-> None, role |-> Some("user")]

\* PUT and DELETE /users/:id sent by a signed-in user.  gated tells whether
\* authenticate runs before the controller: it does not on the routes as
\* routes/users.routes.js mounts them, and it does on the chain their
\* "@access Protected - Requires authentication" comments describe
WriteFlights ==
    {Flight("update", g, SessionOf(c), t, b, "none") :
        g \in {RouteAuthenticates("update"), TRUE}, c \in {1, 2}, t \in {1, 2},
        b \in {UpdateRole, UpdateDemote, UpdateName}}
    \cup {Flight("delete", g, SessionOf(c), t, UpdateNothing, "none") :
        g \in {RouteAuthenticates("delete"), TRUE}, c \in {1, 2}, t \in {1, 2}}

IsWrite(f) == f.op \in {"update", "delete"}

\* authenticate, where the chain has it: req.user = user
WriteGate(p) ==
    /\ IsWrite(flights[p]) /\ flights[p].pc = "start"
    /\ \E a \in {authenticate(users, now, flights[p].cookie)} :
          flights' = [flights EXCEPT ![p] =
             IF ~@.gated THEN [@ EXCEPT !.pc = "authed"]
             ELSE IF ~a.next THEN Answer(@, a.status, None, NoCookie)
             ELSE [@ EXCEPT !.pc = "authed", !.reqUser = a.user]]
    /\ UNCHANGED <<users, nextId, now, jar, req, res, env, az, call>>

\* updateUser / deleteUser up to the call of the service: the validations,
\* then the checks on currentUser, which throw when req.user is undefined
WritePermit(p) ==
    /\ IsWrite(flights[p]) /\ flights[p].pc = "authed"
    /\ \E f \in {flights[p]} :
       \E idv \in {userIdSchema([id |-> IdParam(f.target)])} :
          flights' = [flights EXCEPT ![p] =
             IF ~idv.success THEN Answer(f, 400, None, NoCookie)
             ELSE IF f.op = "update" /\ ~updateUserSchema(f.body).success
             THEN Answer(f, 400, None, NoCookie)
             ELSE IF ~IsSome(f.reqUser) THEN Answer(f, 500, None, NoCookie)
             ELSE IF Get(f.reqUser).id # idv.data.id
                     /\ Get(f.reqUser).role # "admin"
             THEN Answer(f, 403, None, NoCookie)
             ELSE IF f.op = "update"
                     /\ IsSome(updateUserSchema(f.body).data.role)
                     /\ Get(f.reqUser).role # "admin"
             THEN Answer(f, 403, None, NoCookie)
             ELSE [f EXCEPT !.pc = "permitted"]]
    /\ UNCHANGED <<users, nextId, now, jar, req, res, env, az, call>>

\* the service: const existingUser = await getUserById(id); 404 if absent
WriteLookup(p) ==
    /\ IsWrite(flights[p]) /\ flights[p].pc = "permitted"
    /\ flights' = [flights EXCEPT ![p] =
          IF ~IsSome(getUserById(users, @.target))
          THEN Answer(@, 404, None, NoCookie)
          ELSE [@ EXCEPT !.pc = "found"]]
    /\ UNCHANGED <<users, nextId, now, jar, req, res, env, az, call>>

\* the service: await db.update(...) / db.delete(...) ... .returning(...),
\* return result[0]; the controller answers 200 with it.  A statement that
\* matches no row returns no row and result[0] is undefined
WriteApply(p) ==
    /\ IsWrite(flights[p]) /\ flights[p].pc = "found"
    /\ \E f \in {flights[p]} :
          IF f.target \notin Ids(users)
          THEN /\ flights' = [flights EXCEPT ![p] = Answer(f, 200, None, NoCookie)]
               /\ users' = users
          ELSE IF f.op = "delete"
          THEN /\ flights' = [flights EXCEPT ![p] =
                     [Answer(f, 200, Some(Public(users[f.target])), NoCookie)
                        EXCEPT !.wrote = TRUE]]
               /\ users' = [i \in Ids(users) \ {f.target} |-> users[i]]
          ELSE \E row \in {SetColumns(users[f.target],
                                      updateUserSchema(f.body).data, now)} :
                  IF ~EmailFree(users, f.target, row.email)
                  THEN /\ flights' = [flights EXCEPT ![p] =
                                         Answer(f, 500, None, NoCookie)]
                       /\ users' = users
                  ELSE /\ flights' = [flights EXCEPT ![p] =
                             [Answer(f, 200, Some(Public(row)), NoCookie)
                                EXCEPT !.wrote = TRUE]]
                       /\ users' = [users EXCEPT ![f.target] = row]
    /\ UNCHANGED <<nextId, now, jar, req, res, env, az, call>>

InitRace ==
    /\ users = RaceTable
    /\ nextId = 3
    /\ now = 0
    /\ jar = None
    /\ req = NoRequest
    /\ res = NoResponse
    /\ env \in EnvConfigs
    /\ az = AzIdle
    /\ call = CallIdle
    /\ flights \in [{1, 2} -> SignupFlights] \cup [{1, 2} -> WriteFlights]

NextRace ==
    \/ \E p \in DOMAIN flights : SignupValidate(p)
    \/ \E p \in DOMAIN flights : SignupCheck(p)
    \/ \E p \in DOMAIN flights : SignupHash(p)
    \/ \E p \in DOMAIN flights : SignupInsert(p)
    \/ \E p \in DOMAIN flights : SignupRespond(p)
    \/ \E p \in DOMAIN flights : WriteGate(p)
    \/ \E p \in DOMAIN flights : WritePermit(p)
    \/ \E p \in DOMAIN flights : WriteLookup(p)
    \/ \E p \in DOMAIN flights : WriteApply(p)

SpecRace == InitRace /\ [][NextRace]_vars

----------------------------------------------------------------------------
(* PUT and DELETE /users/:id one request at a time, on the routes as        *)
(* mounted and behind authenticate, for every caller, id and payload        *)

WriteTables == {RaceTable, [i \in {1} |-> RaceTable[i]]}

WriteCookies == {None, SessionOf(1), SessionOf(2), Some(Forge(Get(SessionOf(1))))}

InitWrites ==
    /\ users \in WriteTables
    /\ nextId = 3
    /\ now = 0
    /\ jar = None
    /\ req = NoRequest
    /\ res = NoResponse
    /\ env \in EnvConfigs
    /\ az = AzIdle
    /\ flights = NoFlights
    /\ call \in {[fn |-> "users.routes", op |-> o, gated |-> g, cookie |-> c,
                  id |-> i, body |-> b, answer |-> None] :
                    o \in {"update", "delete"},
                    g \in {FALSE, TRUE},
                    c \in WriteCookies,
                    i \in {<<"1">>, <<"2">>, <<"a">>},
                    b \in {UpdateName, UpdateRole, UpdateNothing}}

\* authenticate where the chain has it, then the controller
WriteServe ==
    /\ ~IsSome(call.answer)
    /\ \E a \in {authenticate(users, now, call.cookie)} :
       \E out \in {IF call.gated /\ ~a.next
                   THEN Outcome(a.status, a.body, NoCookie, users, nextId,
                                a.reads, 0, 0)
                   ELSE IF call.op = "update"
                   THEN updateUser(users, nextId, now, [id |-> call.id], call.body,
                                   IF call.gated THEN a.user ELSE None)
                   ELSE deleteUser(users, nextId, [id |-> call.id],
                                   IF call.gated THEN a.user ELSE None)} :
          /\ users' = out.rows
          /\ nextId' = out.seq
          /\ call' = [call EXCEPT !.answer = Some([status |-> out.status,
                                                   user |-> out.body.user])]
    /\ UNCHANGED <<now, jar, req, res, env, az, flights>>

NextWrites == WriteServe

SpecWrites == InitWrites /\ [][NextWrites]_vars

----------------------------------------------------------------------------
(* Properties.  Routed: the response in res answers an HTTP request that    *)
(* passed the security middleware.  A session is valid when the cookie      *)
(* holds a token signed with the server's secret, not yet expired, whose    *)
(* user is in the table.                                                    *)

ProtectedOps == {"me", "list", "get", "update", "delete"}

Routed == req.op \in Ops /\ res.trace.sec

GoodSignature(c) == Get(c).sig = Mac(JWT_SECRET, Get(c).payload)

Unexpired(c, t) == t < Get(c).payload.exp

ValidSession(rows, t, c) ==
    /\ IsSome(c)
    /\ GoodSignature(c)
    /\ Unexpired(c, t)
    /\ Get(c).payload.id \in DOMAIN rows

\* C1: a request to a protected operation (GET /auth/me, GET /users,
\* GET /users/:id, PUT /users/:id, DELETE /users/:id) that carries no valid
\* session token passes through authenticate and is answered 401; its handler
\* does not run and reads and writes nothing in the users table.
C1_ProtectedBehindAuthenticate ==
    [][(Routed' /\ req'.op \in ProtectedOps
          /\ ~ValidSession(users, now, req'.cookie))
       => (/\ res'.status = 401
           /\ res'.trace.gate = "rejected"
           /\ ~res'.trace.handler
           /\ res'.trace.reads = 0
           /\ res'.trace.writes = 0)]_vars

\* C2: whenever authenticate runs on a request whose token cookie is absent,
\* or whose token's signature does not verify, or whose token has expired, it
\* answers 401, attaches no identity and does not call next (the handler
\* does not run).
C2_AuthenticateRejects ==
    (Routed /\ res.trace.gate # "none"
       /\ (\/ ~IsSome(req.cookie)
           \/ ~GoodSignature(req.cookie)
           \/ ~Unexpired(req.cookie, now)))
    => (/\ res.status = 401
        /\ res.trace.gate = "rejected"
        /\ res.trace.user = None
        /\ ~res.trace.handler)

\* an existing user's correctly signed token, expired, is turned away by
\* authenticate on GET /auth/me
C2_ExpiredTokenRejected ==
    /\ Routed
    /\ req.op = "me"
    /\ IsSome(req.cookie)
    /\ GoodSignature(req.cookie)
    /\ ~Unexpired(req.cookie, now)
    /\ Get(req.cookie).payload.id \in DOMAIN users
    /\ res.status = 401
    /\ res.trace.gate = "rejected"

\* C3: once a user's row has been deleted, a request to a protected operation
\* that carries a token issued to that user and not yet expired is answered
\* 401.
C3_DeletedUserRejected ==
    [][(Routed' /\ req'.op \in ProtectedOps
          /\ IsSome(req'.cookie)
          /\ GoodSignature(req'.cookie)
          /\ Unexpired(req'.cookie, now)
          /\ Get(req'.cookie).payload.id < nextId
          /\ Get(req'.cookie).payload.id \notin DOMAIN users)
       => res'.status = 401]_vars

C7_DuplicateEmailRejected ==
    [][(Routed' /\ req'.op = "signup" /\ signUpSchema(req'.body).success
          /\ \E i \in DOMAIN users :
                ToLowerCase(users[i].email) = ToLowerCase(req'.body.email))
       => (res'.status = 409 /\ users' = users /\ nextId' = nextId)]_vars

\* a signup whose email differs from a stored one in case only was answered 409
C7_CaseVariantRejected ==
    /\ Routed
    /\ req.op = "signup"
    /\ req.body.email = Str_AB
    /\ \E i \in DOMAIN users : users[i].email = Str_ab
    /\ res.status = 409

UniqueLowercase(rows) ==
    /\ \A i, j \in DOMAIN rows : rows[i].email = rows[j].email => i = j
    /\ \A i \in DOMAIN rows : rows[i].email = ToLowerCase(rows[i].email)

\* C8: after every step no two rows of the users table share an email and
\* every stored email is lowercase; a signup answered 409 and an update
\* refused for its email leave the table as it was.
C8_EmailsUniqueLowercase ==
    [][/\ UniqueLowercase(users')
       /\ (Routed' /\ req'.op = "signup" /\ res'.status = 409) => users' = users
       /\ (req'.op = "updateUserService" /\ res'.body.error # "")
             => users' = users]_vars

\* with two users stored, an update that would give one the other's email
\* was refused
C8_DuplicateUpdateRefused ==
    /\ Cardinality(DOMAIN users) = 2
    /\ req.op = "updateUserService"
    /\ res.body.error = "duplicate key value violates unique constraint"
    /\ UniqueLowercase(users)

Observable(o) == [status |-> o.status, body |-> o.body, cookie |-> o.cookie]

UnknownEmail(b) ==
    /\ signInSchema(b).success
    /\ ~\E i \in DOMAIN users : users[i].email = ToLowerCase(b.email)

WrongPassword(b) ==
    /\ signInSchema(b).success
    /\ \E i \in DOMAIN users :
          /\ users[i].email = ToLowerCase(b.email)
          /\ ~comparePassword(b.password, users[i].password)

\* C9: a signin with an unknown email and a signin with a known email and a
\* wrong password cannot be told apart: the response to either is 401 with
\* no cookie effect, and its status, body and cookie effect are those every
\* other signin of either kind gets in the same state.
C9_SigninFailuresAlike ==
    (Routed /\ req.op = "signin"
       /\ (UnknownEmail(req.body) \/ WrongPassword(req.body)))
    => (/\ res.status = 401
        /\ res.cookie = NoCookie
        /\ \A b \in SignInBodies :
              (UnknownEmail(b) \/ WrongPassword(b))
              => Observable(signin(users, nextId, now, b)) = Observable(res))

\* a signin with a known email and a wrong password was answered 401 while
\* another email is unknown
C9_WrongPasswordAnswered ==
    /\ Routed
    /\ req.op = "signin"
    /\ WrongPassword(req.body)
    /\ res.status = 401
    /\ \E b \in SignInBodies : UnknownEmail(b)

\* C10: authorize(...allowedRoles) calls next exactly when an identity is
\* attached and its role is one of allowedRoles; with no identity it answers
\* 401, with an identity whose role is not among them 403.
C10_AuthorizeDecision ==
    az.done =>
        /\ az.next <=> (IsSome(az.user) /\ Get(az.user).role \in Range(az.roles))
        /\ ~IsSome(az.user) => (az.status = 401 /\ ~az.next)
        /\ (IsSome(az.user) /\ Get(az.user).role \notin Range(az.roles))
              => (az.status = 403 /\ ~az.next)

\* authorize let through an identity whose role is the second of two
\* allowed roles
C10_SecondRoleAllowed ==
    /\ az.done
    /\ az.next
    /\ Len(az.roles) = 2
    /\ IsSome(az.user)
    /\ az.roles[1] # Get(az.user).role
    /\ az.roles[2] = Get(az.user).role

\* C11: for PUT /users/:id with a valid session and valid input: a caller who
\* is not an admin and sends role is answered 403 whatever the target, a
\* caller who is not an admin and targets another id is answered 403, and a
\* caller who sends only a name for their own id is answered 200.
C11_UpdatePermissions ==
    [][(Routed' /\ req'.op = "update"
          /\ ValidSession(users, now, req'.cookie)
          /\ userIdSchema(req'.params).success
          /\ updateUserSchema(req'.body).success)
       => LET caller == users[Get(req'.cookie).payload.id]
              target == ParseInt(req'.params.id)
          IN /\ (caller.role # "admin" /\ IsSome(req'.body.role))
                   => res'.status = 403
             /\ (caller.role # "admin" /\ caller.id # target)
                   => res'.status = 403
             /\ (caller.id = target /\ IsSome(req'.body.name)
                   /\ ~IsSome(req'.body.email) /\ ~IsSome(req'.body.role))
                   => res'.status = 200]_vars

\* C12: for DELETE /users/:id with a valid session and a valid id: a caller
\* deleting their own record is answered 200 and the record is removed, a
\* caller who is not an admin and targets another id is answered 403, and an
\* admin deleting an existing record is answered 200 and the record is removed.
C12_DeletePermissions ==
    [][(Routed' /\ req'.op = "delete"
          /\ ValidSession(users, now, req'.cookie)
          /\ userIdSchema(req'.params).success)
       => LET caller == users[Get(req'.cookie).payload.id]
              target == ParseInt(req'.params.id)
          IN /\ caller.id = target
                   => (res'.status = 200 /\ target \notin DOMAIN users')
             /\ (caller.role # "admin" /\ caller.id # target)
                   => res'.status = 403
             /\ (caller.role = "admin" /\ target \in DOMAIN users)
                   => (res'.status = 200 /\ target \notin DOMAIN users')]_vars

C14_SignVerifyRoundTrip ==
    IsSome(call.verdict) =>
        LET v == Get(call.verdict)
            elapsed == v.at - call.signedAt
        IN /\ (call.key = "process" /\ elapsed < 1)
                 => (/\ ~v.threw
                     /\ Get(v.decoded).id = call.claims.id
                     /\ Get(v.decoded).email = call.claims.email
                     /\ Get(v.decoded).role = call.claims.role)
           /\ elapsed >= 1 => v.threw
           /\ call.key # "process" => v.threw

\* a token signed with the process secret failed to verify a day later
C14_ExpiredFails ==
    /\ IsSome(call.verdict)
    /\ call.key = "process"
    /\ Get(call.verdict).at - call.signedAt >= 1
    /\ Get(call.verdict).threw

\* C15: for a password p of 8 to 128 characters, comparing a candidate with
\* the hash of p yields true when the candidate is p and false when it is
\* any other password.
C15_CompareIsEquality ==
    (IsSome(call.result)
       /\ Len(call.password) >= 8 /\ Len(call.password) <= 128)
    => (Get(call.result) <=> call.candidate = call.password)

\* the user records a response body carries
UserRecordsIn(body) ==
    (IF IsSome(body.user) THEN {Get(body.user)} ELSE {})
    \cup (IF IsSome(body.users) THEN Get(body.users) ELSE {})

SafeColumns == {"id", "name", "email", "role", "createdAt", "updatedAt"}

BreaksSchema(r) ==
    \/ r.op = "signup" /\ ~signUpSchema(r.body).success
    \/ r.op = "signin" /\ ~signInSchema(r.body).success
    \/ r.op = "update" /\ (\/ ~userIdSchema(r.params).success
                           \/ ~updateUserSchema(r.body).success)

\* C17: a signup, signin or update request whose input breaks its schema is
\* answered 400; its handler reads and writes nothing in the users table,
\* computes no hash and sets no cookie, and the table is left as it was.
C17_ValidationFirst ==
    [][(Routed' /\ BreaksSchema(req'))
       => (/\ res'.status = 400
           /\ res'.trace.reads = 0
           /\ res'.trace.writes = 0
           /\ res'.trace.hashes = 0
           /\ res'.cookie = NoCookie
           /\ users' = users
           /\ nextId' = nextId)]_vars

\* an update with no field, sent with a session cookie for an existing
\* user, was answered 400
C17_EmptyUpdateRefused ==
    /\ Routed
    /\ req.op = "update"
    /\ req.body = UpdateNothing
    /\ ValidSession(users, now, req.cookie)
    /\ res.status = 400
    /\ res.trace.handler

\* C18: GET /users/:id answers 400 without a lookup when the id is not
\* digits only or parses to zero, 404 when the id is a positive integer with
\* no matching record, and 200 with the record otherwise.
C18_GetUserStatuses ==
    (Routed /\ req.op = "get")
    => LET id == req.params.id
       IN IF ~IsDigits(id) \/ ParseInt(id) = 0
          THEN res.status = 400 /\ res.trace.reads = 0
          ELSE IF ParseInt(id) \notin Ids(users)
          THEN res.status = 404
          ELSE /\ res.status = 200
               /\ res.body.user = Some(Public(users[ParseInt(id)]))

\* the statuses the interface lists for PUT /users/:id
UpdateStatuses == {200, 400, 401, 403, 404}

UpdateEmail(e) == [name |-> None, email |-> Some(e), role |-> None]

\* C19: PUT /users/:id ends only in 200, 400, 401, 403 or 404: as the route
\* answers every request, and as the controller answers a user who sets the
\* email of their own record, an email another user holds included.
C19_UpdateStatuses ==
    /\ (Routed /\ req.op = "update") => res.status \in UpdateStatuses
    /\ \A i \in Ids(users), e \in {Str_ab, Str_cd} :
          updateUser(users, nextId, now, [id |-> IdParam(i)], UpdateEmail(e),
                     Some(Public(users[i]))).status \in UpdateStatuses

\* C20: tokens are signed and verified with the placeholder secret only when
\* no secret is configured and the process is not running in production.
C20_PlaceholderOutsideProduction ==
    (IsSome(call.token) /\ call.key = "process"
       /\ Get(call.token).sig = Mac(DEFAULT_SECRET, Get(call.token).payload))
    => (~IsSome(env.JWT_SECRET) /\ env.NODE_ENV # "production")

\* the name a signup or update request carries, if any
NameIn(r) ==
    IF r.op = "signup" THEN Some(r.body.name)
    ELSE IF r.op = "update" THEN r.body.name
    ELSE None

\* C21: every stored name has, after trimming, 2 to 255 characters, and a
\* signup or update whose name has fewer than 2 characters after trimming
\* is answered 400.
C21_NamesTrimmedLength ==
    /\ \A i \in Ids(users) :
          Len(Trim(users[i].name)) >= 2 /\ Len(Trim(users[i].name)) <= 255
    /\ (Routed /\ IsSome(NameIn(req)) /\ Len(Trim(Get(NameIn(req)))) < 2)
          => res.status = 400

\* the response in res reports an update that succeeded: 200 on the route,
\* or the record returned to a direct caller of the users service
UpdateSucceeded ==
    /\ IsSome(res.body.user)
    /\ \/ Routed /\ req.op = "update" /\ res.status = 200
       \/ req.op = "updateUserService"

\* the id an update or delete in req names
TargetId ==
    IF req.op \in {"updateUserService", "deleteUserService"}
    THEN req.params.id[1]
    ELSE ParseInt(req.params.id)

\* C22: a successful update changes, in the record it names, only fields of
\* its payload and updatedAt, which becomes the time of the update; id,
\* createdAt and the password hash stay, and no other record changes.
C22_UpdateFrame ==
    [][UpdateSucceeded'
       => LET id == TargetId'
          IN /\ Ids(users') = Ids(users)
             /\ id \in Ids(users)
             /\ \A i \in Ids(users) \ {id} : users'[i] = users[i]
             /\ users'[id].id = users[id].id
             /\ users'[id].createdAt = users[id].createdAt
             /\ users'[id].password = users[id].password
             /\ users'[id].updatedAt = now
             /\ \A f \in {"name", "email", "role"} :
                   IsSome(req'.body[f]) \/ users'[id][f] = users[id][f]
             /\ nextId' = nextId]_vars

\* a record's role was updated some time after the record was created
C22_UpdatedLater ==
    /\ UpdateSucceeded
    /\ IsSome(req.body.role)
    /\ TargetId \in Ids(users)
    /\ users[TargetId].updatedAt > users[TargetId].createdAt
    /\ Cardinality(Ids(users)) > 1

\* C23: the identity authenticate attaches is the user's record as the table
\* holds it when the request is served, whatever the token says: a handler
\* behind authenticate runs with that record, and GET /me answers with it.
C23_IdentityIsCurrentRecord ==
    (Routed /\ RouteAuthenticates(req.op) /\ res.trace.handler)
    => LET id == Get(req.cookie).payload.id
       IN /\ id \in Ids(users)
          /\ res.trace.user = Some(Public(users[id]))
          /\ req.op = "me" => res.body.user = Some(Brief(users[id]))

\* GET /me was answered for a token issued before the user's role changed
C23_RoleChangedSinceToken ==
    /\ Routed
    /\ req.op = "me"
    /\ res.status = 200
    /\ Get(req.cookie).payload.role = "user"
    /\ Get(res.body.user).role = "admin"

\* C29: the rate limit a request is measured against is that of its
\* requester: the guest limit without a valid session, otherwise the limit
\* of the role the session's user has.
C29_LimitOfRequesterRole ==
    (req.op \in Ops)
    => res.trace.limitRole =
          IF ValidSession(users, now, req.cookie)
          THEN users[Get(req.cookie).payload.id].role
          ELSE "guest"

\* C30: a request reaches its handler only if the protection service's
\* decision is allow: a denial for bot or shield is answered 403, one for
\* rate limit 429 and a failure of the service 500, none of them passing
\* the security middleware.
C30_OnlyAllowReachesHandler ==
    (req.op \in Ops)
    => /\ res.trace.handler => req.decision = "allow"
       /\ req.decision # "allow" => ~res.trace.sec
       /\ req.decision \in {"bot", "shield"} => res.status = 403
       /\ req.decision = "rateLimit" => res.status = 429
       /\ req.decision \in {"error", "throw"} => res.status = 500

\* both flights are signups with valid input for one email that no record
\* held when they started, nothing failing inside them, and both are answered
SameEmailSignupsDone ==
    /\ DOMAIN flights = {1, 2}
    /\ \A p \in {1, 2} :
          /\ flights[p].op = "signup"
          /\ flights[p].pc = "done"
          /\ flights[p].fault = "none"
          /\ signUpSchema(flights[p].body).success
    /\ flights[1].body.email = flights[2].body.email
    /\ ~IsSome(findUserByEmail(RaceTable, flights[1].body.email))

\* C24: of two signups for the same email served at the same time, one is
\* answered 201 and the other 409, and one record with that email exists.
C24_ConcurrentSignup ==
    SameEmailSignupsDone
    => /\ {flights[1].status, flights[2].status} = {201, 409}
       /\ Cardinality({i \in Ids(users) :
                          users[i].email = flights[1].body.email}) = 1

\* C25: a signup that is not answered 201 has created no user record.
C25_SignupAllOrNothing ==
    \A p \in DOMAIN flights :
        (flights[p].op = "signup" /\ flights[p].pc = "done"
           /\ flights[p].status # 201)
        => ~IsSome(flights[p].created)

\* the user a flight's session belongs to
CallerOf(f) == Get(f.cookie).payload.id

\* both flights are answered updates or deletes of one user, sent by an
\* admin who is not that user, and one of them is a delete
AdminWritesDone ==
    /\ DOMAIN flights = {1, 2}
    /\ \A p \in {1, 2} :
          /\ IsWrite(flights[p])
          /\ flights[p].pc = "done"
          /\ RaceTable[CallerOf(flights[p])].role = "admin"
          /\ CallerOf(flights[p]) # flights[p].target
    /\ flights[1].target = flights[2].target
    /\ \E p \in {1, 2} : flights[p].op = "delete"

\* C26: an update or delete answered 200 carries the record it affected;
\* of two permitted requests on one user served at the same time, one of
\* them a delete, exactly one delete is answered 200, with the record, and
\* a request that finds the record gone is answered 404.
C26_WritesCarryRecord ==
    /\ \A p \in DOMAIN flights :
          (IsWrite(flights[p]) /\ flights[p].status = 200)
          => /\ IsSome(flights[p].user)
             /\ Get(flights[p].user).id = flights[p].target
    /\ AdminWritesDone
       => /\ Cardinality({p \in {1, 2} : /\ flights[p].op = "delete"
                                          /\ flights[p].status = 200}) = 1
          /\ \A p \in {1, 2} : flights[p].status \in {200, 404}

C28_RefusedWritesNothing ==
    [][(IsSome(call'.answer)
          /\ Get(call'.answer).status \in {400, 401, 403, 404})
       => (users' = users /\ nextId' = nextId)]_vars

\* a delete of a user that does not exist was answered 404 while another
\* record was in the table
C28_MissingUserRefused ==
    /\ call.fn = "users.routes"
    /\ call.op = "delete"
    /\ IsSome(call.answer)
    /\ Get(call.answer).status = 404
    /\ users # <<>>

====
